---- MODULE Spec2Model ----
(***************************************************************************)
(* A model of prefect-shell's subprocess execution core:                   *)
(*   - the task shell_run_command       (src/prefect_shell/commands.py)    *)
(*   - the block ShellOperation and its runs, ShellProcess  (same file)    *)
(*   - the function shell_run_command   (src/prefect_shell/utils.py)       *)
(* together with the child process they launch and the two bounded pipes   *)
(* (stdout, stderr) between the child and its reader.                      *)
(*                                                                         *)
(* Text is a sequence of characters; the characters are the strings "a",   *)
(* "e", "sp" (a blank), "nl" (line feed) and "cr" (carriage return).       *)
(* A list of lines is a sequence of texts.                                 *)
(***************************************************************************)
EXTENDS Integers, Sequences, FiniteSets, TLC

\* ------------------------------------------------------------------ bounds

\* The longest program (number of one-character writes) of a child process.
MaxProg == 4

\* How many times a block is triggered at most.
MaxTriggers == 2

\* The capacity of an OS pipe, in characters.
PipeCap == 2

\* ------------------------------------------------------------- python text

nl == "nl"
sp == "sp"
cr == "cr"

\* str.rstrip() with no argument strips these (the model's white space).
Whitespace == {nl, sp, cr}

RECURSIVE RStrip(_)
\* text.rstrip()
RStrip(text) ==
  IF text = <<>> THEN <<>>
  ELSE IF text[Len(text)] \in Whitespace
       THEN RStrip(SubSeq(text, 1, Len(text) - 1))
       ELSE text

\* Whether sep occurs in text at position i.
OccursAt(text, sep, i) ==
  /\ i + Len(sep) - 1 <= Len(text)
  /\ SubSeq(text, i, i + Len(sep) - 1) = sep

RECURSIVE Split(_, _)
\* text.split(sep): never empty, "" gives [""].
Split(text, sep) ==
  LET hits == {i \in 1..Len(text) : OccursAt(text, sep, i)}
  IN IF hits = {} THEN <<text>>
     ELSE LET i == CHOOSE j \in hits : \A k \in hits : j <= k
          IN <<SubSeq(text, 1, i - 1)>>
               \o Split(SubSeq(text, i + Len(sep), Len(text)), sep)

RECURSIVE Join(_, _)
\* sep.join(parts)
Join(parts, sep) ==
  IF parts = <<>> THEN <<>>
  ELSE IF Len(parts) = 1 THEN parts[1]
  ELSE parts[1] \o sep \o Join(Tail(parts), sep)

RECURSIVE Concat(_)
\* The parts one after the other, nothing in between.
Concat(parts) ==
  IF parts = <<>> THEN <<>> ELSE parts[1] \o Concat(Tail(parts))

\* lines[-1]
Last(seq) == seq[Len(seq)]

\* ------------------------------------------------------------------- state

VARIABLES
  \* the inputs of one call of shell_run_command
  platform,        \* sys.platform
  os_environ,      \* os.environ, the process-wide environment
  env,             \* the env argument: [isNone, map]
  helper_command,  \* TRUE when a helper command is given
  shell,           \* the shell argument, "None" when not given
  extension,       \* the extension argument, "None" when not given
  return_all,
  stream_level,
  other_actor,     \* TRUE when another actor deletes script files
  \* the locals of the call
  pc,              \* where the coroutine is
  current_env,     \* the environment given to open_process
  shell_command,   \* the argument vector
  tmp,             \* the script file: [exists, open, suffix, content]
  lines,
  stderr_chunks,   \* the texts received from process.stderr
  returncode,      \* process.returncode: <<>> is None, <<c>> the exit code c
  exc,             \* the exception in flight
  result,          \* how the call ended
  logged,          \* the records handed to the logger
  \* the child process and its pipes
  child,           \* "none", "running", "exited", "closed"
  child_env,       \* the environment the child was started with
  prog,            \* what the child still has to write: <<fd, character>>...
  exit_code,       \* the code the child exits with
  stdout_pipe,
  stderr_pipe,
  out_written,     \* everything the child wrote to stdout
  err_written,     \* everything the child wrote to stderr
  \* a ShellOperation block (it shares platform, os_environ, env, shell and
  \* extension with the task; prog and exit_code are what its commands do)
  max_triggers,    \* how many times the program triggers the block
  commands,        \* the commands attribute, a list of command names
  stream_output,
  exit_stack,      \* _exit_stack: the registered resources, <<kind, id>>
  files,           \* the script files of the triggers, in order
  procs,           \* the processes opened, each with its ShellProcess
  op_pc,           \* where the caller of the block is
  cur,             \* the process wait_for_completion is waiting for
  in_run,          \* TRUE inside ShellOperation.run
  readers,         \* the two _capture_output coroutines of the wait
  op_result,       \* how the last call on the block ended
  release_log,     \* every release made by close, in order
  close_exc        \* the exception pending in _exit_stack.aclose()

inputVars == <<platform, os_environ, env, helper_command, shell, extension,
               return_all, stream_level, other_actor>>
taskVars  == <<pc, current_env, shell_command, tmp, lines, stderr_chunks,
               returncode, exc, result>>
callVars  == <<taskVars, logged>>
childVars == <<child, child_env, prog, exit_code, stdout_pipe, stderr_pipe,
               out_written, err_written>>
blockVars == <<max_triggers, commands, stream_output, exit_stack, files, procs, op_pc, cur,
               in_run, readers, op_result, release_log, close_exc>>
vars == <<inputVars, callVars, childVars, blockVars>>

\* --------------------------------------------------------------- constants

\* logging.INFO, the default of stream_level.
INFO == 20

\* logging.WARNING
WARNING == 30

StreamLevels == {INFO, WARNING}

None == "None"

\* The exit codes a child may end with.
ExitCodes == {0, 1, 2}

\* One write of a child: <<file descriptor, character>>; 1 is stdout, 2 stderr.
Writes == {<<1, "a">>, <<1, nl>>, <<2, "e">>}

\* All sequences over S of length at most n.
SeqsUpTo(S, n) == UNION {[1..k -> S] : k \in 0..n}

Programs == SeqsUpTo(Writes, MaxProg)

\* ------------------------------------------------------------ environments

\* An environment is a function from variable names to values.
EmptyEnv == [k \in {} |-> None]

\* dict(base); d.update(upd): upd's keys win, base's other keys stay.
Update(base, upd) ==
  [k \in DOMAIN base \cup DOMAIN upd |->
     IF k \in DOMAIN upd THEN upd[k] ELSE base[k]]

\* env or {}
OrEmpty(e) == IF e.isNone THEN EmptyEnv ELSE e.map

\* CurrentEnv with a fault: only the supplied mapping reaches the child.
CurrentEnvSuppliedOnly(environ, e) == OrEmpty(e)

\* current_env = os.environ.copy(); current_env.update(env or {})
CurrentEnv(environ, e) == Update(environ, OrEmpty(e))

\* os.environ after the update: the update is made on the copy, so
\* os.environ itself is as it was.
EnvironAfterUpdate(environ, upd) == environ

\* ------------------------------------------------- shell, extension, script

\* str.lower() on the shell names of the model.
Lower(s) == IF s \in {"PowerShell", "POWERSHELL"} THEN "powershell" ELSE s

\* shell = "powershell" if sys.platform == "win32" else "bash", when shell is None
ResolveShell(sh, plat) ==
  IF sh = None THEN (IF plat = "win32" THEN "powershell" ELSE "bash") ELSE sh

\* ResolveExtension with a fault: the shell is compared as it is written.
ResolveExtensionCaseSensitive(sh, ext) ==
  IF sh = "powershell" THEN ".ps1" ELSE ext

\* extension = ".ps1" if shell.lower() == "powershell" else extension
ResolveExtension(sh, ext) == IF Lower(sh) = "powershell" THEN ".ps1" ELSE ext

\* The trailer that makes a PowerShell script exit with its last command's
\* code: "\r\nExit $LastExitCode"
Trailer == "Exit $LastExitCode"

\* What shell_run_command writes to the script file, piece by piece.
ScriptContent(helper, sh) ==
  (IF helper THEN <<"helper_command", "os.linesep">> ELSE <<>>)
    \o <<"command">>
    \o (IF Lower(sh) = "powershell" THEN <<Trailer>> ELSE <<>>)

NoFile == [exists |-> FALSE, open |-> FALSE, suffix |-> None, content |-> <<>>]

\* ------------------------------------------------------ errors and results

\* Truthy with a fault: only codes above 1 count as a failure.
TruthyAboveOne(code) == code > 1

\* if process.returncode:
Truthy(code) == code # 0

\* PropagateTo with a fault: the script is removed after the block, not in
\* a finally clause, so an exception skips the removal.
PropagateToCaller == "exit"

\* try: ... finally: an exception in the block goes through the finally clause.
PropagateTo == "finally"

NoExc == [type |-> None, code |-> 0, detail |-> <<>>, context |-> None]

\* raise RuntimeError(f"Command failed with exit code {code}:\n{detail}")
CommandFailed(code, detail) ==
  [type |-> "RuntimeError", code |-> code, detail |-> detail,
   context |-> None]

OtherExc(type) ==
  [type |-> type, code |-> 0, detail |-> <<>>, context |-> None]

\* An exception raised in a finally clause while e was in flight: it is the
\* one that leaves the call, with e as its __context__.
RaisedInFinally(type, e) ==
  [type |-> type, code |-> 0, detail |-> <<>>, context |-> e.type]

NoResult == [kind |-> "none", list |-> <<>>, str |-> <<>>, error |-> NoExc]

\* Diagnostic with a fault: no fall back to the last stdout line.
DiagnosticStderrOnly(chunks, ls) == Join(chunks, <<nl>>)

\* The diagnostic of a failed command: the stderr chunks joined by newlines,
\* or the last stdout line and a newline when that is empty and lines is not.
Diagnostic(chunks, ls) ==
  LET stderr == Join(chunks, <<nl>>)
  IN IF stderr = <<>> /\ ls # <<>> THEN Last(ls) \o <<nl>> ELSE stderr

\* LogRecord with a fault: every record is made at INFO.
LogRecordAtInfo(level, msg) == [level |-> INFO, msg |-> msg]

\* logger.log(level=stream_level, msg=text)
LogRecord(level, msg) == [level |-> level, msg |-> msg]

\* lines.extend(text.rstrip().split("\n"))
ExtendLines(ls, text) == ls \o Split(RStrip(text), <<nl>>)

\* ReturnValue with a fault: the scalar result is the first line.
ReturnValueFirstLine(ls, all) ==
  IF all
  THEN [kind |-> "list", list |-> ls, str |-> <<>>, error |-> NoExc]
  ELSE [kind |-> "str", list |-> <<>>,
        str |-> IF ls # <<>> THEN ls[1] ELSE <<>>, error |-> NoExc]

\* line = lines[-1] if lines else ""; return lines if return_all else line
ReturnValue(ls, all) ==
  IF all
  THEN [kind |-> "list", list |-> ls, str |-> <<>>, error |-> NoExc]
  ELSE [kind |-> "str", list |-> <<>>,
        str |-> IF ls # <<>> THEN Last(ls) ELSE <<>>, error |-> NoExc]

Raised(e) == [kind |-> "raise", list |-> <<>>, str |-> <<>>, error |-> e]

\* ------------------------------------------------------- the child process

\* The child writes the next character of its program; it blocks while the
\* pipe it writes to is full.
ChildWrite ==
  /\ child = "running"
  /\ prog # <<>>
  /\ LET w == Head(prog)
     IN \/ /\ w[1] = 1
           /\ Len(stdout_pipe) < PipeCap
           /\ stdout_pipe' = Append(stdout_pipe, w[2])
           /\ out_written' = Append(out_written, w[2])
           /\ UNCHANGED <<stderr_pipe, err_written>>
        \/ /\ w[1] = 2
           /\ Len(stderr_pipe) < PipeCap
           /\ stderr_pipe' = Append(stderr_pipe, w[2])
           /\ err_written' = Append(err_written, w[2])
           /\ UNCHANGED <<stdout_pipe, out_written>>
  /\ prog' = Tail(prog)
  /\ UNCHANGED <<child, child_env, exit_code, inputVars, callVars, blockVars>>

\* The child has written everything and exits; its ends of the pipes close.
ChildExit ==
  /\ child = "running"
  /\ prog = <<>>
  /\ child' = "exited"
  /\ UNCHANGED <<child_env, prog, exit_code, stdout_pipe, stderr_pipe, out_written,
                 err_written, inputVars, callVars, blockVars>>

\* The child is blocked in a write to a full stderr pipe.
ChildBlockedOnStderr ==
  /\ child = "running"
  /\ prog # <<>>
  /\ Head(prog)[1] = 2
  /\ Len(stderr_pipe) = PipeCap

\* ------------------------------------------------------ shell_run_command

\* Lines 70-96: the environment, the shell, the script file.
Prepare ==
  /\ pc = "start"
  /\ LET sh  == ResolveShell(shell, platform)
         ext == ResolveExtension(sh, extension)
     IN /\ current_env' = CurrentEnv(os_environ, env)
        /\ os_environ' = EnvironAfterUpdate(os_environ, OrEmpty(env))
        /\ tmp' = [exists |-> TRUE, open |-> FALSE, suffix |-> ext,
                   content |-> ScriptContent(helper_command, sh)]
        /\ shell_command' = <<sh, "tmp.name">>
  /\ lines' = <<>>
  /\ pc' = "open_process"
  /\ UNCHANGED <<stderr_chunks, returncode, exc, result, logged,
                 platform, env, helper_command, shell, extension,
                 return_all, stream_level, other_actor,
                 blockVars, childVars>>

\* Lines 97-99: anyio.open_process starts the child.
OpenProcess ==
  /\ pc = "open_process"
  /\ child' = "running"
  /\ child_env' = current_env
  /\ pc' = "stdout"
  /\ UNCHANGED <<current_env, shell_command, tmp, lines, stderr_chunks,
                 returncode, exc, result, logged, inputVars, blockVars,
                 prog, exit_code, stdout_pipe, stderr_pipe, out_written,
                 err_written>>

\* Lines 97-99: anyio.open_process raises (the shell is not found).
OpenProcessFails ==
  /\ pc = "open_process"
  /\ exc' = OtherExc("OSError")
  /\ pc' = PropagateTo
  /\ UNCHANGED <<current_env, shell_command, tmp, lines, stderr_chunks,
                 returncode, result, logged, inputVars, blockVars, childVars>>

\* Lines 100-102: one text of TextReceiveStream(process.stdout), which is
\* some non-empty part of what the pipe holds; it is logged and split.
ReceiveStdout ==
  /\ pc = "stdout"
  /\ \E n \in 1..Len(stdout_pipe) :
       LET text == SubSeq(stdout_pipe, 1, n)
       IN /\ logged' = Append(logged, LogRecord(stream_level, text))
          /\ lines' = ExtendLines(lines, text)
          /\ stdout_pipe' = SubSeq(stdout_pipe, n + 1, Len(stdout_pipe))
  /\ UNCHANGED <<pc, current_env, shell_command, tmp, stderr_chunks,
                 returncode, exc, result, inputVars, blockVars,
                 child, child_env, prog, exit_code, stderr_pipe, out_written,
                 err_written>>

\* Line 100: stdout is at its end: the pipe is empty and the child has exited.
StdoutEnd ==
  /\ pc = "stdout"
  /\ stdout_pipe = <<>>
  /\ child = "exited"
  /\ pc' = "wait"
  /\ UNCHANGED <<current_env, shell_command, tmp, lines, stderr_chunks,
                 returncode, exc, result, logged, inputVars, blockVars, childVars>>

\* Lines 100-101: receiving or logging raises; the process context manager
\* closes the process on the way out.
StdoutFails ==
  /\ pc = "stdout"
  /\ exc' = OtherExc("Exception")
  /\ child' = "closed"
  /\ pc' = PropagateTo
  /\ UNCHANGED <<current_env, shell_command, tmp, lines, stderr_chunks,
                 returncode, result, logged, inputVars, blockVars,
                 child_env, prog, exit_code, stdout_pipe, stderr_pipe, out_written,
                 err_written>>

\* Lines 104-105: process.wait() returns once the child has exited.
ProcessWait ==
  /\ pc = "wait"
  /\ child = "exited"
  /\ returncode' = <<exit_code>>
  /\ pc' = IF Truthy(exit_code) THEN "stderr" ELSE "finally"
  /\ UNCHANGED <<current_env, shell_command, tmp, lines, stderr_chunks,
                 exc, result, logged, inputVars, blockVars, childVars>>

\* Lines 106-108: one text of TextReceiveStream(process.stderr).
ReceiveStderr ==
  /\ pc = "stderr"
  /\ \E n \in 1..Len(stderr_pipe) :
       /\ stderr_chunks' = Append(stderr_chunks, SubSeq(stderr_pipe, 1, n))
       /\ stderr_pipe' = SubSeq(stderr_pipe, n + 1, Len(stderr_pipe))
  /\ UNCHANGED <<pc, current_env, shell_command, tmp, lines, returncode,
                 exc, result, logged, inputVars, blockVars,
                 child, child_env, prog, exit_code, stdout_pipe, out_written,
                 err_written>>

\* Lines 106-114: stderr is at its end; the failure is raised.
RaiseCommandFailed ==
  /\ pc = "stderr"
  /\ stderr_pipe = <<>>
  /\ exc' = CommandFailed(returncode[1], Diagnostic(stderr_chunks, lines))
  /\ pc' = PropagateTo
  /\ UNCHANGED <<current_env, shell_command, tmp, lines, stderr_chunks,
                 returncode, result, logged, inputVars, blockVars, childVars>>

\* The call is cancelled at one of its awaits; a child that was started is
\* closed on the way out of the process context manager.
Cancel ==
  /\ pc \in {"open_process", "stdout", "wait", "stderr"}
  /\ exc' = OtherExc("CancelledError")
  /\ child' = IF child = "none" THEN "none" ELSE "closed"
  /\ pc' = PropagateTo
  /\ UNCHANGED <<current_env, shell_command, tmp, lines, stderr_chunks,
                 returncode, result, logged, inputVars, blockVars,
                 child_env, prog, exit_code, stdout_pipe, stderr_pipe, out_written,
                 err_written>>

\* Line 116: if os.path.exists(tmp.name)
FinallyExists ==
  /\ pc = "finally"
  /\ pc' = IF tmp.exists THEN "remove" ELSE "exit"
  /\ UNCHANGED <<current_env, shell_command, tmp, lines, stderr_chunks,
                 returncode, exc, result, logged, inputVars, blockVars, childVars>>

\* Line 117: os.remove(tmp.name); it raises FileNotFoundError when the file
\* has gone since line 116 found it.
FinallyRemove ==
  /\ pc = "remove"
  /\ IF tmp.exists
     THEN /\ tmp' = [tmp EXCEPT !.exists = FALSE]
          /\ exc' = exc
     ELSE /\ tmp' = tmp
          /\ exc' = RaisedInFinally("FileNotFoundError", exc)
  /\ pc' = "exit"
  /\ UNCHANGED <<current_env, shell_command, lines, stderr_chunks,
                 returncode, result, logged, inputVars, blockVars, childVars>>

\* Another actor deletes the script file of the call while the call runs.
OtherRemovesScript ==
  /\ other_actor
  /\ pc \in {"open_process", "stdout", "wait", "stderr", "finally",
             "remove"}
  /\ tmp.exists
  /\ tmp' = [tmp EXCEPT !.exists = FALSE]
  /\ UNCHANGED <<pc, current_env, shell_command, lines, stderr_chunks,
                 returncode, exc, result, logged, inputVars, blockVars,
                 childVars>>

\* Lines 119-120, or the exception in flight leaves the call.
Exit ==
  /\ pc = "exit"
  /\ result' = IF exc.type # None THEN Raised(exc)
               ELSE ReturnValue(lines, return_all)
  /\ pc' = "done"
  /\ UNCHANGED <<current_env, shell_command, tmp, lines, stderr_chunks,
                 returncode, exc, logged, inputVars, blockVars, childVars>>

\* ------------------------------------------------ utils.shell_run_command

\* logging.ERROR, the level of logger.error
ERROR == 40

\* shell: str = "bash"
UtilShell(sh) == IF sh = None THEN "bash" ELSE sh

\* What utils.shell_run_command writes to its script file, piece by piece.
UtilScriptContent(helper) ==
  (IF helper THEN <<"helper_command", "os.linesep">> ELSE <<>>) \o <<"command">>

\* shell_command = [shell, tmp.name], joined by a blank on Windows
UtilShellCommand(sh, plat) ==
  IF plat = "win32" THEN <<sh, sp, "tmp.name">> ELSE <<sh, "tmp.name">>

\* open_process(shell_command, env=env): the env argument itself is passed,
\* not current_env; with None the child inherits os.environ.
UtilChildEnv(environ, e) == IF e.isNone THEN environ ELSE e.map

\* return lines if return_all else lines[-1]: the index fails on an empty list.
UtilReturnValue(ls, all) ==
  IF all
  THEN [kind |-> "list", list |-> ls, str |-> <<>>, error |-> NoExc]
  ELSE IF ls # <<>>
       THEN [kind |-> "str", list |-> <<>>, str |-> Last(ls), error |-> NoExc]
       ELSE Raised(OtherExc("IndexError"))

\* Lines 54-66: the environment, the script file (written and flushed inside
\* the with block), the argument vector.
UtilPrepare ==
  /\ pc = "u_start"
  /\ current_env' = CurrentEnv(os_environ, env)
  /\ os_environ' = EnvironAfterUpdate(os_environ, OrEmpty(env))
  /\ tmp' = [exists |-> TRUE, open |-> TRUE, suffix |-> None,
             content |-> UtilScriptContent(helper_command)]
  /\ shell_command' = UtilShellCommand(UtilShell(shell), platform)
  /\ lines' = <<>>
  /\ pc' = "u_open_process"
  /\ UNCHANGED <<stderr_chunks, returncode, exc, result, logged,
                 platform, env, helper_command, shell, extension,
                 return_all, stream_level, other_actor,
                 blockVars, childVars>>

\* Line 69: open_process starts the child.
UtilOpenProcess ==
  /\ pc = "u_open_process"
  /\ child' = "running"
  /\ child_env' = UtilChildEnv(os_environ, env)
  /\ pc' = "u_stdout"
  /\ UNCHANGED <<current_env, shell_command, tmp, lines, stderr_chunks,
                 returncode, exc, result, logged, inputVars, blockVars,
                 prog, exit_code, stdout_pipe, stderr_pipe, out_written,
                 err_written>>

\* Lines 70-72: one text of TextReceiveStream(process.stdout); it is logged
\* and split.
UtilReceiveStdout ==
  /\ pc = "u_stdout"
  /\ \E n \in 1..Len(stdout_pipe) :
       LET text == SubSeq(stdout_pipe, 1, n)
       IN /\ logged' = Append(logged, LogRecord(stream_level, text))
          /\ lines' = ExtendLines(lines, text)
          /\ stdout_pipe' = SubSeq(stdout_pipe, n + 1, Len(stdout_pipe))
  /\ UNCHANGED <<pc, current_env, shell_command, tmp, stderr_chunks,
                 returncode, exc, result, inputVars, blockVars,
                 child, child_env, prog, exit_code, stderr_pipe, out_written,
                 err_written>>

\* Line 70: stdout is at its end.
UtilStdoutEnd ==
  /\ pc = "u_stdout"
  /\ stdout_pipe = <<>>
  /\ child = "exited"
  /\ pc' = "u_wait"
  /\ UNCHANGED <<current_env, shell_command, tmp, lines, stderr_chunks,
                 returncode, exc, result, logged, inputVars, blockVars, childVars>>

\* Lines 74-75: process.wait() returns once the child has exited.
UtilProcessWait ==
  /\ pc = "u_wait"
  /\ child = "exited"
  /\ returncode' = <<exit_code>>
  /\ pc' = IF Truthy(exit_code) THEN "u_stderr" ELSE "u_exit"
  /\ UNCHANGED <<current_env, shell_command, tmp, lines, stderr_chunks,
                 exc, result, logged, inputVars, blockVars, childVars>>

\* Lines 76-78: one text of TextReceiveStream(process.stderr).
UtilReceiveStderr ==
  /\ pc = "u_stderr"
  /\ \E n \in 1..Len(stderr_pipe) :
       /\ stderr_chunks' = Append(stderr_chunks, SubSeq(stderr_pipe, 1, n))
       /\ stderr_pipe' = SubSeq(stderr_pipe, n + 1, Len(stderr_pipe))
  /\ UNCHANGED <<pc, current_env, shell_command, tmp, lines, returncode,
                 exc, result, logged, inputVars, blockVars,
                 child, child_env, prog, exit_code, stdout_pipe, out_written,
                 err_written>>

\* Lines 76-81: stderr is at its end; it is logged as one error record and
\* the failure is raised, without the stderr text in its message.
UtilRaiseCommandFailed ==
  /\ pc = "u_stderr"
  /\ stderr_pipe = <<>>
  /\ logged' = Append(logged, [level |-> ERROR,
                               msg |-> Join(stderr_chunks, <<nl>>)])
  /\ exc' = CommandFailed(returncode[1], <<>>)
  /\ pc' = "u_exit"
  /\ UNCHANGED <<current_env, shell_command, tmp, lines, stderr_chunks,
                 returncode, result, inputVars, blockVars, childVars>>

\* Lines 57 and 83: the with block is left, which closes and deletes the
\* script file; then the exception in flight leaves the call, or line 83
\* returns.
UtilExit ==
  /\ pc = "u_exit"
  /\ tmp' = [tmp EXCEPT !.exists = FALSE, !.open = FALSE]
  /\ result' = IF exc.type # None THEN Raised(exc)
               ELSE UtilReturnValue(lines, return_all)
  /\ pc' = "u_done"
  /\ UNCHANGED <<current_env, shell_command, lines, stderr_chunks,
                 returncode, exc, logged, inputVars, blockVars, childVars>>

\* ---------------------------------------------------------- ShellOperation

\* os.linesep
LineSep(plat) == IF plat = "win32" THEN <<cr, nl>> ELSE <<nl>>

\* extension = self.extension or (".ps1" if sys.platform == "win32" else ".sh")
TriggerExtension(ext, plat) ==
  IF ext # None THEN ext ELSE IF plat = "win32" THEN ".ps1" ELSE ".sh"

\* if self.shell is None and sys.platform == "win32" or extension == ".ps1":
\*     shell = "powershell"
\* elif self.shell is None: shell = "bash"
\* else: shell = self.shell.lower()
TriggerShell(sh, plat, ext) ==
  IF (sh = None /\ plat = "win32") \/ ext = ".ps1" THEN "powershell"
  ELSE IF sh = None THEN "bash"
  ELSE Lower(sh)

\* os.linesep.join(self.commands)
JoinedCommands(cmds) ==
  Join([i \in 1..Len(cmds) |-> <<cmds[i]>>], <<"os.linesep">>)

\* input_env = os.environ.copy(); input_env.update(self.env)
InputEnv(environ, e) == Update(environ, e.map)

\* Register with a fault: the resource is not entered into the stack.
RegisterNothing(stack, r) == stack

\* self._exit_stack.enter_context(r), enter_async_context(r)
Register(stack, r) == Append(stack, r)

\* Rest with a fault: the released resource stays registered.
RestKeepsAll(stack) == stack

\* AsyncExitStack.aclose() pops the callback it is about to call.
Rest(stack) == SubSeq(stack, 1, Len(stack) - 1)

\* The script file of a trigger: what was written and what was flushed.
ScriptFile(ext, cmds, sh) ==
  [exists  |-> TRUE,
   suffix  |-> ext,
   flushed |-> JoinedCommands(cmds),
   content |-> JoinedCommands(cmds)
                 \o (IF sh = "powershell" THEN <<Trailer>> ELSE <<>>)]

NoPipes == [stdout |-> <<>>, stderr |-> <<>>]

\* The process a trigger opens, with the ShellProcess that wraps it.
NewProcess(argv, e, piped, p, c) ==
  [state      |-> "running",
   open       |-> TRUE,
   argv       |-> argv,
   env        |-> e,
   piped      |-> piped,      \* stdout and stderr are PIPE, not DEVNULL
   prog       |-> p,
   exit_code  |-> c,
   returncode |-> <<>>,
   pipe       |-> NoPipes,
   written    |-> NoPipes,
   output     |-> <<>>,       \* ShellProcess._output
   waited     |-> FALSE]

FdName(fd) == IF fd = 1 THEN "stdout" ELSE "stderr"

OpResult(call, kind, list, error) ==
  [call |-> call, kind |-> kind, list |-> list, error |-> error]

\* ExtendOutput with a fault: the new lines replace the buffer.
ExtendOutputReplacing(out, text, plat) == Split(RStrip(text), LineSep(plat))

\* self._output.extend(text.split(os.linesep)), with text = output.rstrip()
ExtendOutput(out, text, plat) == out \o Split(RStrip(text), LineSep(plat))

\* A child of the block writes the next character of its program; with a
\* pipe it blocks while the pipe is full, with DEVNULL the character is gone.
OpChildWrite(i) ==
  /\ procs[i].state = "running"
  /\ procs[i].prog # <<>>
  /\ LET w  == Head(procs[i].prog)
         fd == FdName(w[1])
     IN /\ procs[i].piped => Len(procs[i].pipe[fd]) < PipeCap
        /\ procs' = [procs EXCEPT
             ![i].prog = Tail(@),
             ![i].written[fd] = Append(@, w[2]),
             ![i].pipe[fd] = IF procs[i].piped THEN Append(@, w[2]) ELSE @]
  /\ UNCHANGED <<max_triggers, commands, stream_output, exit_stack, files, op_pc, cur,
                 in_run, readers, op_result, release_log, close_exc,
                 inputVars, callVars, childVars>>

\* A child of the block exits; the process object then knows its return code.
OpChildExit(i) ==
  /\ procs[i].state = "running"
  /\ procs[i].prog = <<>>
  /\ procs' = [procs EXCEPT ![i].state = "exited",
                            ![i].returncode = <<procs[i].exit_code>>]
  /\ UNCHANGED <<max_triggers, commands, stream_output, exit_stack, files, op_pc, cur,
                 in_run, readers, op_result, release_log, close_exc,
                 inputVars, callVars, childVars>>

\* Lines 285-331 of trigger, up to the process being opened (spawned = TRUE)
\* or open_process raising (spawned = FALSE).
TriggerEffect(spawned) ==
  LET ext     == TriggerExtension(extension, platform)
      sh      == TriggerShell(shell, platform, ext)
      fid     == Len(files) + 1
      pid     == Len(procs) + 1
      withFile == Register(exit_stack, <<"file", fid>>)
  IN /\ files' = Append(files, ScriptFile(ext, commands, sh))
     /\ os_environ' = EnvironAfterUpdate(os_environ, env.map)
     /\ IF spawned
        THEN /\ procs' = Append(procs,
                  NewProcess(<<sh, fid>>, InputEnv(os_environ, env),
                             stream_output, prog, exit_code))
             /\ exit_stack' = Register(withFile, <<"process", pid>>)
        ELSE /\ procs' = procs
             /\ exit_stack' = withFile

\* ShellOperation.trigger
Trigger ==
  /\ op_pc = "idle"
  /\ Len(files) < max_triggers
  /\ TriggerEffect(TRUE)
  /\ op_result' = OpResult("trigger", "ok", <<>>, None)
  /\ UNCHANGED <<max_triggers, commands, stream_output, op_pc, cur, in_run, readers,
                 release_log, close_exc, platform, env, helper_command, shell, extension,
                 return_all, stream_level, other_actor,
                 callVars, childVars>>

\* ShellOperation.trigger (also as the first step of run) when open_process
\* raises: the script file is registered, no process is.
TriggerFails ==
  /\ op_pc = "idle"
  /\ Len(files) < max_triggers
  /\ TriggerEffect(FALSE)
  /\ op_result' = OpResult("trigger", "raise", <<>>, "OSError")
  /\ UNCHANGED <<max_triggers, commands, stream_output, op_pc, cur, in_run, readers,
                 release_log, close_exc, platform, env, helper_command, shell, extension,
                 return_all, stream_level, other_actor,
                 callVars, childVars>>

\* BothReading with a fault: only the reader of stdout is scheduled.
StdoutReaderOnly == [stdout |-> "reading", stderr |-> "not started"]

\* asyncio.gather schedules both _capture_output coroutines.
BothReading == [stdout |-> "reading", stderr |-> "reading"]

\* ShellOperation.run, lines 357-358: trigger, then wait_for_completion
\* starts its two readers.
Run ==
  /\ op_pc = "idle"
  /\ Len(files) < max_triggers
  /\ TriggerEffect(TRUE)
  /\ cur' = Len(procs) + 1
  /\ in_run' = TRUE
  /\ readers' = BothReading
  /\ op_pc' = "gather"
  /\ UNCHANGED <<max_triggers, commands, stream_output, op_result, release_log, close_exc,
                 platform, env, helper_command, shell, extension,
                 return_all, stream_level, other_actor,
                 callVars, childVars>>

\* ShellProcess.wait_for_completion, lines 168-173, on a process that is
\* still open and was not waited for.
WaitForCompletion(i) ==
  /\ op_pc = "idle"
  /\ procs[i].open
  /\ ~procs[i].waited
  /\ cur' = i
  /\ in_run' = FALSE
  /\ readers' = BothReading
  /\ op_pc' = "gather"
  /\ UNCHANGED <<max_triggers, commands, stream_output, exit_stack, files, procs,
                 op_result, release_log, close_exc, inputVars, callVars, childVars>>

\* _capture_output, lines 157-161: one text of TextReceiveStream(source).
CaptureOutput(src) ==
  /\ op_pc = "gather"
  /\ readers[src] = "reading"
  /\ procs[cur].piped
  /\ \E n \in 1..Len(procs[cur].pipe[src]) :
       LET output == SubSeq(procs[cur].pipe[src], 1, n)
           text   == RStrip(output)
       IN /\ logged' =
               IF stream_output
               THEN Append(logged,
                      [level |-> INFO,
                       msg |-> <<"Process stream output:">>
                                 \o LineSep(platform) \o text])
               ELSE logged
          /\ procs' = [procs EXCEPT
               ![cur].output = ExtendOutput(@, output, platform),
               ![cur].pipe[src] = SubSeq(@, n + 1, Len(@))]
  /\ UNCHANGED <<max_triggers, commands, stream_output, exit_stack, files, op_pc, cur,
                 in_run, readers, op_result, release_log, close_exc,
                 inputVars, taskVars, childVars>>

\* _capture_output: the source is at its end.
CaptureEnd(src) ==
  /\ op_pc = "gather"
  /\ readers[src] = "reading"
  /\ procs[cur].piped
  /\ procs[cur].pipe[src] = <<>>
  /\ procs[cur].state # "running"
  /\ readers' = [readers EXCEPT ![src] = "done"]
  /\ UNCHANGED <<max_triggers, commands, stream_output, exit_stack, files, procs, op_pc,
                 cur, in_run, op_result, release_log, close_exc,
                 inputVars, callVars, childVars>>

\* _capture_output on a process opened with DEVNULL: process.stdout is None,
\* and receiving from it raises; the error leaves wait_for_completion.
CaptureFails ==
  /\ op_pc = "gather"
  /\ ~procs[cur].piped
  /\ procs' = [procs EXCEPT ![cur].waited = TRUE]
  /\ op_result' = OpResult(IF in_run THEN "run" ELSE "wait_for_completion",
                           "raise", <<>>, "AttributeError")
  /\ op_pc' = "idle"
  /\ UNCHANGED <<max_triggers, commands, stream_output, exit_stack, files, cur, in_run,
                 readers, release_log, close_exc, inputVars, callVars, childVars>>

\* GatherDone with a fault: the gather is over as soon as the reader of
\* stdout is done.
GatherDoneAfterStdout ==
  /\ op_pc = "gather"
  /\ readers["stdout"] = "done"
  /\ op_pc' = "wait"
  /\ UNCHANGED <<max_triggers, commands, stream_output, exit_stack, files, procs, cur,
                 in_run, readers, op_result, release_log, close_exc,
                 inputVars, callVars, childVars>>

\* Line 170-174: asyncio.gather returns when both readers are done.
GatherDone ==
  /\ op_pc = "gather"
  /\ readers["stdout"] = "done"
  /\ readers["stderr"] = "done"
  /\ op_pc' = "wait"
  /\ UNCHANGED <<max_triggers, commands, stream_output, exit_stack, files, procs, cur,
                 in_run, readers, op_result, release_log, close_exc,
                 inputVars, callVars, childVars>>

\* Lines 174-178: process.wait() returns and so does wait_for_completion;
\* inside run, line 359 then returns fetch_result().
WaitReturns ==
  /\ op_pc = "wait"
  /\ procs[cur].state # "running"
  /\ procs' = [procs EXCEPT ![cur].waited = TRUE]
  /\ op_result' = IF in_run
                  THEN OpResult("run", "list", procs[cur].output, None)
                  ELSE OpResult("wait_for_completion", "ok", <<>>, None)
  /\ op_pc' = "idle"
  /\ UNCHANGED <<max_triggers, commands, stream_output, exit_stack, files, cur, in_run,
                 readers, release_log, close_exc, inputVars, callVars, childVars>>

\* WaitCancelled with a fault: the interrupted wait empties the buffer.
WaitCancelledDiscarding ==
  /\ op_pc \in {"gather", "wait"}
  /\ procs' = [procs EXCEPT ![cur].waited = TRUE, ![cur].output = <<>>]
  /\ op_result' = OpResult(IF in_run THEN "run" ELSE "wait_for_completion",
                           "raise", <<>>, "CancelledError")
  /\ op_pc' = "idle"
  /\ UNCHANGED <<max_triggers, commands, stream_output, exit_stack, files, cur, in_run,
                 readers, release_log, close_exc, inputVars, callVars, childVars>>

\* wait_for_completion is cancelled while it gathers or waits.
WaitCancelled ==
  /\ op_pc \in {"gather", "wait"}
  /\ procs' = [procs EXCEPT ![cur].waited = TRUE]
  /\ op_result' = OpResult(IF in_run THEN "run" ELSE "wait_for_completion",
                           "raise", <<>>, "CancelledError")
  /\ op_pc' = "idle"
  /\ UNCHANGED <<max_triggers, commands, stream_output, exit_stack, files, cur, in_run,
                 readers, release_log, close_exc, inputVars, callVars, childVars>>

\* ShellProcess.fetch_result, line 188
FetchResult(i) ==
  /\ op_pc = "idle"
  /\ op_result' = OpResult("fetch_result", "list", procs[i].output, None)
  /\ UNCHANGED <<max_triggers, commands, stream_output, exit_stack, files, procs, op_pc,
                 cur, in_run, readers, release_log, close_exc,
                 inputVars, callVars, childVars>>

\* ShellOperation.close, line 366, called directly or by __exit__ and
\* __aexit__ when a with block is left, normally or by an exception.
Close ==
  /\ op_pc = "idle"
  /\ op_pc' = "closing"
  /\ UNCHANGED <<max_triggers, commands, stream_output, exit_stack, files, procs, cur,
                 in_run, readers, op_result, release_log, close_exc,
                 inputVars, callVars, childVars>>

\* The release of a resource: a script file is closed and deleted, a
\* process is terminated if it still runs and its streams are closed.
ReleasedFiles(r) ==
  IF r[1] = "file" THEN [files EXCEPT ![r[2]].exists = FALSE] ELSE files

ReleasedProcs(r) ==
  IF r[1] = "process"
  THEN [procs EXCEPT
         ![r[2]].open = FALSE,
         ![r[2]].state = IF @ = "running" THEN "terminated" ELSE @]
  ELSE procs

\* The script file of the resource is no longer there.
FileGone(r) == r[1] = "file" /\ ~files[r[2]].exists

\* AfterFailure with a fault: the unwinding stops at the first release that
\* raises, and the resources registered before it are dropped unreleased.
AfterFailureAbandons(stack) == <<>>

\* AsyncExitStack.aclose() keeps unwinding after a callback has raised: the
\* callback is popped like any other and the exception is kept for the end.
AfterFailure(stack) == Rest(stack)

\* AsyncExitStack.aclose(): the resource registered last is released first.
\* (Closing a script file that is gone passes silently where the unlink of
\* NamedTemporaryFile ignores a missing file.)
CloseOne ==
  /\ op_pc = "closing"
  /\ exit_stack # <<>>
  /\ LET r == Last(exit_stack)
     IN /\ files' = ReleasedFiles(r)
        /\ procs' = ReleasedProcs(r)
        /\ release_log' = Append(release_log, r)
  /\ exit_stack' = Rest(exit_stack)
  /\ UNCHANGED <<max_triggers, commands, stream_output, op_pc, cur, in_run, readers,
                 op_result, close_exc, inputVars, callVars, childVars>>

\* AsyncExitStack.aclose(): the release of a script file that is gone
\* raises FileNotFoundError (the unlink in NamedTemporaryFile's close, on
\* the Python versions where it is not guarded); the file object is closed
\* all the same.
CloseOneFails ==
  /\ op_pc = "closing"
  /\ exit_stack # <<>>
  /\ FileGone(Last(exit_stack))
  /\ LET r == Last(exit_stack)
     IN /\ files' = ReleasedFiles(r)
        /\ procs' = ReleasedProcs(r)
        /\ release_log' = Append(release_log, r)
  /\ close_exc' = "FileNotFoundError"
  /\ exit_stack' = AfterFailure(exit_stack)
  /\ UNCHANGED <<max_triggers, commands, stream_output, op_pc, cur, in_run, readers,
                 op_result, inputVars, callVars, childVars>>

\* Lines 366-367: nothing is left to release; close returns, or aclose
\* raises the exception it kept.
CloseReturns ==
  /\ op_pc = "closing"
  /\ exit_stack = <<>>
  /\ op_result' = IF close_exc = None
                  THEN OpResult("close", "ok", <<>>, None)
                  ELSE OpResult("close", "raise", <<>>, close_exc)
  /\ close_exc' = None
  /\ op_pc' = "idle"
  /\ UNCHANGED <<max_triggers, commands, stream_output, exit_stack, files, procs, cur,
                 in_run, readers, release_log,
                 inputVars, callVars, childVars>>

\* Another actor deletes the script file of a trigger.
OtherRemovesBlockScript(i) ==
  /\ other_actor
  /\ op_pc \in {"idle", "gather", "wait"}
  /\ files[i].exists
  /\ files' = [files EXCEPT ![i].exists = FALSE]
  /\ UNCHANGED <<max_triggers, commands, stream_output, exit_stack, procs, op_pc, cur,
                 in_run, readers, op_result, release_log, close_exc,
                 inputVars, callVars, childVars>>

NextTask ==
  \/ ChildWrite
  \/ ChildExit
  \/ Prepare
  \/ OpenProcess
  \/ OpenProcessFails
  \/ ReceiveStdout
  \/ StdoutEnd
  \/ StdoutFails
  \/ ProcessWait
  \/ ReceiveStderr
  \/ RaiseCommandFailed
  \/ Cancel
  \/ FinallyExists
  \/ FinallyRemove
  \/ OtherRemovesScript
  \/ Exit

NextUtil ==
  \/ UtilPrepare
  \/ UtilOpenProcess
  \/ UtilReceiveStdout
  \/ UtilStdoutEnd
  \/ UtilProcessWait
  \/ UtilReceiveStderr
  \/ UtilRaiseCommandFailed
  \/ UtilExit

NextBlock ==
  \/ \E i \in 1..Len(procs) : OpChildWrite(i)
  \/ \E i \in 1..Len(procs) : OpChildExit(i)
  \/ Trigger
  \/ TriggerFails
  \/ Run
  \/ \E i \in 1..Len(procs) : WaitForCompletion(i)
  \/ \E src \in {"stdout", "stderr"} : CaptureOutput(src)
  \/ \E src \in {"stdout", "stderr"} : CaptureEnd(src)
  \/ CaptureFails
  \/ GatherDone
  \/ WaitReturns
  \/ WaitCancelled
  \/ \E i \in 1..Len(procs) : FetchResult(i)
  \/ Close
  \/ CloseOne
  \/ CloseOneFails
  \/ CloseReturns
  \/ \E i \in 1..Len(files) : OtherRemovesBlockScript(i)

Next == NextTask \/ NextUtil \/ NextBlock

\* ---------------------------------------------------------- initial states

EnvKeys == {"HOME", "TEST_VAR"}

EnvValues == {"test value", "test_home"}

\* Every environment over EnvKeys.
EnvMaps == UNION {[K -> EnvValues] : K \in SUBSET EnvKeys}

Home == [k \in {"HOME"} |-> "test_home"]

NoEnv == [isNone |-> TRUE, map |-> EmptyEnv]

Given(map) == [isNone |-> FALSE, map |-> map]

NoOpResult == OpResult("none", "none", <<>>, None)

\* No child, no script file, nothing captured.
InitLocals ==
  /\ current_env = EmptyEnv
  /\ shell_command = <<>>
  /\ tmp = NoFile
  /\ lines = <<>>
  /\ stderr_chunks = <<>>
  /\ returncode = <<>>
  /\ exc = NoExc
  /\ result = NoResult
  /\ logged = <<>>
  /\ child = "none"
  /\ child_env = EmptyEnv
  /\ stdout_pipe = <<>>
  /\ stderr_pipe = <<>>
  /\ out_written = <<>>
  /\ err_written = <<>>
  /\ exit_stack = <<>>
  /\ files = <<>>
  /\ procs = <<>>
  /\ cur = 0
  /\ in_run = FALSE
  /\ readers = BothReading
  /\ op_result = NoOpResult
  /\ release_log = <<>>
  /\ close_exc = None

\* The programs a child of a block runs: shorter than the task's.
BlockPrograms == SeqsUpTo(Writes, MaxProg - 1)

\* Two short programs: a silent one, and one that writes to both streams.
ShortPrograms == {<<>>, <<<<1, "a">>, <<2, "e">>>>}

\* The program calls the task shell_run_command.
TaskEntry ==
  /\ pc = "start"
  /\ op_pc = "unused"
  /\ max_triggers = 0
  /\ commands = <<>>
  /\ stream_output = TRUE
  /\ other_actor = FALSE

\* The program calls utils.shell_run_command.
UtilEntry ==
  /\ pc = "u_start"
  /\ op_pc = "unused"
  /\ max_triggers = 0
  /\ commands = <<>>
  /\ stream_output = TRUE
  /\ other_actor = FALSE

\* One call of utils.shell_run_command with the default arguments and a
\* short program.
UtilDefaultCall ==
  /\ UtilEntry
  /\ env = NoEnv
  /\ helper_command = FALSE
  /\ return_all = TRUE
  /\ stream_level = INFO
  /\ prog \in ShortPrograms

\* The program constructs a ShellOperation and uses it.
BlockEntry ==
  /\ pc = "unused"
  /\ op_pc = "idle"
  /\ helper_command = FALSE
  /\ return_all = TRUE
  /\ stream_level = INFO
  /\ commands = <<"c1", "c2">>
  /\ other_actor = FALSE

\* Calls made while another actor deletes script files: one call of the
\* task, or a block that is triggered up to n times; the children run one
\* of the given programs.
InterferedCalls(n, programs) ==
  /\ other_actor = TRUE
  /\ helper_command = FALSE
  /\ return_all = TRUE
  /\ stream_level = INFO
  /\ stream_output = TRUE
  /\ prog \in programs
  /\ exit_code \in {0, 2}
  /\ \/ /\ pc = "start"
        /\ op_pc = "unused"
        /\ max_triggers = 0
        /\ commands = <<>>
        /\ env = NoEnv
     \/ /\ pc = "unused"
        /\ op_pc = "idle"
        /\ max_triggers = n
        /\ commands = <<"c1", "c2">>
        /\ env = Given(EmptyEnv)

\* Every child program and exit code, both result shapes; a block is
\* triggered once; one platform, one inherited environment, the default shell.
Init ==
  /\ InitLocals
  /\ platform = "linux"
  /\ os_environ = Home
  /\ shell = None
  /\ extension = None
  /\ exit_code \in ExitCodes
  /\ \/ /\ TaskEntry
        /\ env = NoEnv
        /\ helper_command = FALSE
        /\ return_all \in BOOLEAN
        /\ stream_level = INFO
        /\ prog \in Programs
     \/ UtilDefaultCall
     \/ InterferedCalls(1, ShortPrograms)
     \/ /\ BlockEntry
        /\ env = Given(EmptyEnv)
        /\ max_triggers = 1
        /\ stream_output \in BOOLEAN
        /\ prog \in BlockPrograms

Spec == Init /\ [][Next]_vars

\* A block triggered up to MaxTriggers times, its children either silent and
\* successful or writing to both streams and failing; the task likewise.
InitLifecycle ==
  /\ InitLocals
  /\ platform = "linux"
  /\ os_environ = Home
  /\ shell = None
  /\ extension = None
  /\ prog \in ShortPrograms
  /\ exit_code = IF prog = <<>> THEN 0 ELSE 2
  /\ \/ /\ TaskEntry
        /\ env = NoEnv
        /\ helper_command = FALSE
        /\ return_all \in BOOLEAN
        /\ stream_level = INFO
     \/ UtilDefaultCall
     \/ InterferedCalls(1, ShortPrograms)
     \/ /\ BlockEntry
        /\ env = Given(EmptyEnv)
        /\ max_triggers = MaxTriggers
        /\ stream_output \in BOOLEAN

SpecLifecycle == InitLifecycle /\ [][Next]_vars

\* Every inherited environment and every env argument over EnvKeys.
InitEnv ==
  /\ InitLocals
  /\ platform = "linux"
  /\ os_environ \in EnvMaps
  /\ shell = None
  /\ extension = None
  /\ exit_code \in {0, 2}
  /\ prog \in ShortPrograms
  /\ \/ /\ TaskEntry
        /\ env \in {NoEnv} \cup {Given(m) : m \in EnvMaps}
        /\ helper_command = FALSE
        /\ return_all = TRUE
        /\ stream_level = INFO
     \/ UtilDefaultCall
     \/ InterferedCalls(1, ShortPrograms)
     \/ /\ BlockEntry
        /\ env \in {Given(m) : m \in EnvMaps}
        /\ max_triggers = 1
        /\ stream_output \in BOOLEAN

SpecEnv == InitEnv /\ [][Next]_vars

\* A child that writes more to stderr than the pipe holds before it writes
\* to stdout, and one that does the opposite.
StderrFlood == [i \in 1..(PipeCap + 1) |-> <<2, "e">>] \o <<<<1, "a">>>>

StdoutFlood == [i \in 1..(PipeCap + 1) |-> <<1, "a">>] \o <<<<2, "e">>>>

FloodPrograms == {StderrFlood, StdoutFlood}

\* A block triggered once whose child fills a pipe; the task and the
\* function of utils with short programs.
InitLive ==
  /\ InitLocals
  /\ platform = "linux"
  /\ os_environ = Home
  /\ shell = None
  /\ extension = None
  /\ exit_code \in {0, 2}
  /\ \/ /\ TaskEntry
        /\ env = NoEnv
        /\ helper_command = FALSE
        /\ return_all = TRUE
        /\ stream_level = INFO
        /\ prog \in ShortPrograms
     \/ UtilDefaultCall
     \/ InterferedCalls(1, ShortPrograms)
     \/ /\ BlockEntry
        /\ env = Given(EmptyEnv)
        /\ max_triggers = 1
        /\ stream_output \in BOOLEAN
        /\ prog \in FloodPrograms \cup ShortPrograms

\* The operating system lets a child that can write or exit do so; the
\* event loop runs a reader whose stream has data or is at its end, and
\* resumes wait_for_completion when what it awaits is done.
Fairness ==
  /\ WF_vars(\E i \in 1..Len(procs) : OpChildWrite(i))
  /\ WF_vars(\E i \in 1..Len(procs) : OpChildExit(i))
  /\ \A src \in {"stdout", "stderr"} :
       WF_vars(CaptureOutput(src)) /\ WF_vars(CaptureEnd(src))
  /\ WF_vars(GatherDone)
  /\ WF_vars(WaitReturns)

SpecLive == InitLive /\ [][Next]_vars /\ Fairness

\* The platforms, the values of the shell argument or attribute, and the
\* values of the extension argument or attribute.
Platforms == {"linux", "win32"}

ShellNames == {None, "bash", "powershell", "PowerShell"}

Extensions == {None, ".ps1", ".zzz"}

\* Every platform, shell and extension, for the task, the function of utils
\* and a block triggered once; short programs.
InitShell ==
  /\ InitLocals
  /\ platform \in Platforms
  /\ os_environ = Home
  /\ shell \in ShellNames
  /\ extension \in Extensions
  /\ prog \in ShortPrograms
  /\ exit_code = IF prog = <<>> THEN 0 ELSE 2
  /\ \/ /\ TaskEntry
        /\ env = NoEnv
        /\ helper_command \in BOOLEAN
        /\ return_all = TRUE
        /\ stream_level = INFO
     \/ UtilDefaultCall
     \/ InterferedCalls(1, ShortPrograms)
     \/ /\ BlockEntry
        /\ env = Given(EmptyEnv)
        /\ max_triggers = 1
        /\ stream_output \in BOOLEAN

SpecShell == InitShell /\ [][Next]_vars

TestVar == [k \in {"TEST_VAR"} |-> "test value"]

\* Every child program, both stream levels and both result shapes for the
\* task and for the function of utils, the latter with and without an env
\* argument; a block with short programs.
InitUtil ==
  /\ InitLocals
  /\ platform = "linux"
  /\ os_environ = Home
  /\ shell = None
  /\ extension = None
  /\ exit_code \in {0, 2}
  /\ \/ /\ TaskEntry
        /\ env = NoEnv
        /\ helper_command = FALSE
        /\ return_all = TRUE
        /\ stream_level \in StreamLevels
        /\ prog \in Programs
     \/ /\ UtilEntry
        /\ env \in {NoEnv, Given(TestVar)}
        /\ helper_command = FALSE
        /\ return_all \in BOOLEAN
        /\ stream_level \in StreamLevels
        /\ prog \in Programs
     \/ InterferedCalls(1, ShortPrograms)
     \/ /\ BlockEntry
        /\ env = Given(EmptyEnv)
        /\ max_triggers = 1
        /\ stream_output \in BOOLEAN
        /\ prog \in ShortPrograms

SpecUtil == InitUtil /\ [][Next]_vars

\* The characters a child writes to stdout and those it writes to stderr,
\* when the two have to be told apart and their order seen.
StdoutChars == {"a", "b"}

StderrChars == {"e", "f"}

OrderWrites ==
  {<<1, c>> : c \in StdoutChars \cup {nl}}
    \cup {<<2, c>> : c \in StderrChars \cup {nl}}

OrderPrograms == SeqsUpTo(OrderWrites, MaxProg - 1)

\* A block triggered once whose child writes distinct characters to the two
\* streams, in every order; the task, the function of utils and a block
\* that does not stream, with short programs.
InitOrder ==
  /\ InitLocals
  /\ platform = "linux"
  /\ os_environ = Home
  /\ shell = None
  /\ extension = None
  /\ \/ /\ TaskEntry
        /\ env = NoEnv
        /\ helper_command = FALSE
        /\ return_all = TRUE
        /\ stream_level = INFO
        /\ prog \in ShortPrograms
        /\ exit_code = IF prog = <<>> THEN 0 ELSE 2
     \/ /\ UtilDefaultCall
        /\ exit_code = IF prog = <<>> THEN 0 ELSE 2
     \/ InterferedCalls(1, ShortPrograms)
     \/ /\ BlockEntry
        /\ env = Given(EmptyEnv)
        /\ max_triggers = 1
        /\ exit_code = 0
        /\ \/ stream_output = TRUE /\ prog \in OrderPrograms
           \/ stream_output = FALSE /\ prog \in ShortPrograms

SpecOrder == InitOrder /\ [][Next]_vars

\* One call of the task with the default arguments and a short program.
TaskDefaultCall ==
  /\ TaskEntry
  /\ env = NoEnv
  /\ helper_command = FALSE
  /\ return_all = TRUE
  /\ stream_level = INFO
  /\ prog \in ShortPrograms

\* The values of the commands attribute: no command, one, two.
CommandBatches == {<<>>, <<"c1">>, <<"c1", "c2">>}

\* A block constructed with each batch of commands and triggered once; the
\* task and the function of utils with their defaults.
InitBatch ==
  /\ InitLocals
  /\ platform = "linux"
  /\ os_environ = Home
  /\ shell = None
  /\ extension = None
  /\ exit_code \in {0, 2}
  /\ \/ TaskDefaultCall
     \/ UtilDefaultCall
     \/ InterferedCalls(1, ShortPrograms)
     \/ /\ pc = "unused"
        /\ op_pc = "idle"
        /\ helper_command = FALSE
        /\ return_all = TRUE
        /\ stream_level = INFO
        /\ other_actor = FALSE
        /\ commands \in CommandBatches
        /\ env = Given(EmptyEnv)
        /\ max_triggers = 1
        /\ stream_output \in BOOLEAN
        /\ prog \in ShortPrograms

SpecBatch == InitBatch /\ [][Next]_vars

\* Another actor deletes script files next to one call of the task and next
\* to a block triggered up to MaxTriggers times (the children are silent
\* and exit with 0 or 2); besides, the task, the
\* function of utils and a block on their own.
InitInterference ==
  /\ InitLocals
  /\ platform = "linux"
  /\ os_environ = Home
  /\ shell = None
  /\ extension = None
  /\ exit_code \in {0, 2}
  /\ \/ TaskDefaultCall
     \/ UtilDefaultCall
     \/ InterferedCalls(MaxTriggers, {<<>>})
     \/ /\ BlockEntry
        /\ env = Given(EmptyEnv)
        /\ max_triggers = 1
        /\ stream_output \in BOOLEAN
        /\ prog \in ShortPrograms

SpecInterference == InitInterference /\ [][Next]_vars

\* ------------------------------------------------------------ the claims

\* C1: when the child of shell_run_command exits with a non-zero code c, the
\* call raises RuntimeError carrying exactly c (unless the call is cancelled
\* first, or the removal of the script raises in the finally clause, which
\* is C25); the call never returns a value for a non-zero exit code, and it
\* never raises this error when the exit code is 0.
C1_NonZeroExitRaisesWithCode ==
  pc = "done" =>
    /\ result.kind \in {"list", "str"} => returncode = <<0>>
    /\ (result.kind = "raise" /\ result.error.type = "RuntimeError") =>
         /\ returncode # <<>>
         /\ returncode[1] # 0
         /\ returncode[1] = exit_code
         /\ result.error.code = exit_code
    /\ (returncode # <<>> /\ returncode[1] # 0) =>
         /\ result.kind = "raise"
         /\ result.error.type \in {"RuntimeError", "CancelledError",
                                   "FileNotFoundError"}

C1_Witness ==
  /\ pc = "done"
  /\ exit_code = 2
  /\ result.kind = "raise"
  /\ result.error.type = "RuntimeError"
  /\ result.error.code = 2

\* C2: when the process triggered by ShellOperation.run exits with a
\* non-zero return code, run ends with an error instead of returning the
\* output list.
C2_RunRaisesOnNonZeroExit ==
  (/\ op_pc = "idle"
   /\ op_result.call = "run"
   /\ procs[cur].returncode # <<>>
   /\ procs[cur].returncode[1] # 0)
    => op_result.kind = "raise"

\* The text ends every line with a newline.
NewlineTerminated(text) == text = <<>> \/ Last(text) = nl

\* The lines of a newline-terminated text.
TextLines(text) ==
  IF text = <<>> THEN <<>>
  ELSE Split(SubSeq(text, 1, Len(text) - 1), <<nl>>)

\* C3: for a child that writes N newline-terminated lines to stdout (and
\* nothing to stderr) and exits with code 0, shell_run_command with
\* return_all=True and ShellOperation.run return exactly those N lines, in
\* order, however the output is split into received chunks.
C3_ReturnsTheLinesWritten ==
  /\ (/\ pc = "done"
      /\ result.kind = "list"
      /\ err_written = <<>>
      /\ NewlineTerminated(out_written))
       => result.list = TextLines(out_written)
  /\ (/\ op_pc = "idle"
      /\ op_result.call = "run"
      /\ op_result.kind = "list"
      /\ procs[cur].returncode = <<0>>
      /\ procs[cur].written["stderr"] = <<>>
      /\ NewlineTerminated(procs[cur].written["stdout"]))
       => op_result.list = TextLines(procs[cur].written["stdout"])

\* C4: a successful shell_run_command returns the whole captured line list
\* with return_all=True, and with return_all=False the last element of that
\* list, or the empty string when the list is empty.
C4_ResultShape ==
  (pc = "done" /\ result.kind # "raise") =>
    IF return_all
    THEN result.kind = "list" /\ result.list = lines
    ELSE /\ result.kind = "str"
         /\ lines = <<>> => result.str = <<>>
         /\ lines # <<>> => result.str = lines[Len(lines)]

C4_Witness ==
  /\ pc = "done"
  /\ ~return_all
  /\ result.kind = "str"
  /\ lines = <<>>
  /\ result.str = <<>>

\* C5: when shell_run_command raises for a non-zero exit, everything the
\* child wrote to stderr has been captured, and the diagnostic of the error
\* is that captured stderr (the received texts, joined by newlines) when it
\* is not empty; otherwise the last captured stdout line (followed by a
\* newline) when a stdout line was captured; otherwise empty.
C5_Diagnostic ==
  (pc = "done" /\ result.kind = "raise" /\ result.error.type = "RuntimeError")
    => /\ Concat(stderr_chunks) = err_written
       /\ err_written # <<>> =>
            result.error.detail = Join(stderr_chunks, <<nl>>)
       /\ (err_written = <<>> /\ lines # <<>>) =>
            result.error.detail = lines[Len(lines)] \o <<nl>>
       /\ (err_written = <<>> /\ lines = <<>>) =>
            result.error.detail = <<>>

C5_Witness ==
  /\ pc = "done"
  /\ result.kind = "raise"
  /\ result.error.type = "RuntimeError"
  /\ err_written = <<>>
  /\ lines = <<<<"a">>>>
  /\ result.error.detail = <<"a", nl>>

\* Where a call of the task shell_run_command can be.
TaskPcs == {"start", "open_process", "stdout", "wait", "stderr", "finally",
            "remove", "exit", "done"}

\* Where a call of utils.shell_run_command can be.
UtilPcs == {"u_start", "u_open_process", "u_stdout", "u_wait", "u_stderr",
            "u_exit", "u_done"}

\* The child environment is the inherited one overlaid with the supplied one.
Overlaid(passed, supplied) ==
  /\ DOMAIN passed = DOMAIN os_environ \cup DOMAIN supplied
  /\ \A k \in DOMAIN supplied : passed[k] = supplied[k]
  /\ \A k \in DOMAIN os_environ \ DOMAIN supplied :
       passed[k] = os_environ[k]

C6_ChildEnvironment ==
  /\ (pc \in TaskPcs /\ child # "none") => Overlaid(child_env, OrEmpty(env))
  /\ \A i \in 1..Len(procs) : Overlaid(procs[i].env, env.map)

\* C6: the environment given to the child by shell_run_command and by
\* ShellOperation.trigger has every supplied key with the supplied value and
\* every other inherited key with its inherited value, and no step changes
\* the process-wide environment.
C6_EnvironmentOverlay ==
  /\ []C6_ChildEnvironment
  /\ [][os_environ' = os_environ]_vars

C6_Witness ==
  /\ pc = "stdout"
  /\ ~env.isNone
  /\ DOMAIN env.map = {"HOME"}
  /\ DOMAIN os_environ = {"HOME", "TEST_VAR"}
  /\ env.map["HOME"] # os_environ["HOME"]
  /\ child_env["HOME"] = env.map["HOME"]
  /\ child_env["TEST_VAR"] = os_environ["TEST_VAR"]

\* C7: once a call of shell_run_command has returned or raised (a normal
\* return, a non-zero exit, a failed spawn, an error while reading or
\* logging, a cancellation), its script file does not exist.
C7_ScriptRemovedOnEveryPath == pc = "done" => ~tmp.exists

C7_Witness ==
  /\ pc = "done"
  /\ result.kind = "raise"
  /\ result.error.type = "CancelledError"
  /\ tmp.content # <<>>
  /\ ~tmp.exists

\* Every script file is deleted and every process handle is closed.
AllReleased ==
  /\ \A i \in 1..Len(files) : ~files[i].exists
  /\ \A i \in 1..Len(procs) : ~procs[i].open /\ procs[i].state # "running"

\* C8: when close has returned (called directly, or on leaving a with block
\* normally or by an exception), every script file created and every
\* process opened by the triggers before it is released, whether the runs
\* succeeded, failed or were never waited for.
C8_CloseReleasesEverything ==
  (op_pc = "idle" /\ op_result.call = "close") =>
    AllReleased /\ exit_stack = <<>>

C8_Witness ==
  /\ op_pc = "idle"
  /\ op_result.call = "close"
  /\ Len(files) = 2
  /\ Len(procs) = 2
  /\ procs[1].waited
  /\ procs[1].returncode = <<2>>
  /\ ~procs[2].waited
  /\ procs[2].state = "terminated"
  /\ AllReleased

NoDuplicates(seq) == \A i, j \in 1..Len(seq) : seq[i] = seq[j] => i = j

\* C9: close is idempotent: no resource is released more than once, however
\* often close is called, and close ends without an error (unless the
\* release of a script that another actor has deleted raises, which is C26).
C9_CloseIdempotent ==
  /\ NoDuplicates(release_log)
  /\ op_result.call = "close" =>
       \/ op_result.kind = "ok"
       \/ other_actor /\ op_result.error = "FileNotFoundError"

\* A second close is under way right after a close that released resources.
C9_Witness ==
  /\ op_pc = "closing"
  /\ op_result.call = "close"
  /\ exit_stack = <<>>
  /\ Len(release_log) > 1

\* C10: shell_run_command is never waiting for the end of stdout while the
\* child is blocked writing to a full stderr pipe.
C10_NeverAwaitsStdoutWhileChildBlocked ==
  ~(pc = "stdout" /\ stdout_pipe = <<>> /\ ChildBlockedOnStderr)

\* C11: with bounded pipes, a wait_for_completion that gathers its two
\* readers on a process opened with pipes eventually ends, whatever the
\* child writes to stdout and stderr and in whatever order the child and the
\* two readers run: the call does not stay blocked on either pipe.
C11_WaitEventuallyReturns ==
  (op_pc = "gather" /\ procs[cur].piped) ~> (op_pc = "idle")

\* The child is blocked on a full stderr pipe while the stdout reader has
\* nothing to read.
C11_Witness ==
  /\ op_pc = "gather"
  /\ procs[cur].piped
  /\ procs[cur].state = "running"
  /\ procs[cur].prog # <<>>
  /\ Head(procs[cur].prog)[1] = 2
  /\ Len(procs[cur].pipe["stderr"]) = PipeCap
  /\ procs[cur].pipe["stdout"] = <<>>
  /\ readers["stdout"] = "reading"

\* The interpreter a platform runs scripts with when no shell is given.
PlatformShell == IF platform = "win32" THEN "powershell" ELSE "bash"

\* C12: the interpreter launched by ShellOperation.trigger (the first
\* element of the argument vector) is the shell attribute when it is set
\* (compared without regard to case), on every platform and for every value
\* of the extension attribute; when it is not set it is powershell on
\* Windows and bash elsewhere.
C12_ExplicitShellWins ==
  \A i \in 1..Len(procs) :
    IF shell # None
    THEN Lower(procs[i].argv[1]) = Lower(shell)
    ELSE procs[i].argv[1] = PlatformShell

\* C13: once shell_run_command (commands.py) has written its script, if the
\* shell it launches is PowerShell (in any case) the script's extension is
\* .ps1 whatever extension was passed and the script ends with the exit-code
\* trailer; for any other shell the extension is the caller's and the script
\* has no trailer.  The shell it launches is the one passed, or the
\* platform's when none was passed.
C13_TaskScriptForShell ==
  (pc \in TaskPcs \ {"start"}) =>
    /\ shell_command[1] = (IF shell = None THEN PlatformShell ELSE shell)
    /\ IF Lower(shell_command[1]) = "powershell"
       THEN /\ tmp.suffix = ".ps1"
            /\ Last(tmp.content) = Trailer
       ELSE /\ tmp.suffix = extension
            /\ \A k \in 1..Len(tmp.content) : tmp.content[k] # Trailer

C13_Witness ==
  /\ pc = "done"
  /\ shell = "PowerShell"
  /\ extension = ".zzz"
  /\ shell_command[1] = "PowerShell"
  /\ tmp.suffix = ".ps1"
  /\ Last(tmp.content) = Trailer

\* The records made from stdout: all of them, but for the error record that
\* utils.shell_run_command makes last when the command has failed.
StdoutRecords ==
  IF pc \in {"u_exit", "u_done"} /\ exc.type = "RuntimeError"
  THEN SubSeq(logged, 1, Len(logged) - 1)
  ELSE logged

RECURSIVE Messages(_)
\* The messages of the records, one after the other.
Messages(records) ==
  IF records = <<>> THEN <<>>
  ELSE records[1].msg \o Messages(Tail(records))

RECURSIVE LinesOf(_)
\* The lines got by splitting the message of each record in turn.
LinesOf(records) ==
  IF records = <<>> THEN <<>>
  ELSE ExtendLines(LinesOf(SubSeq(records, 1, Len(records) - 1)),
                   records[Len(records)].msg)

\* C14: in shell_run_command (commands.py and utils.py), at every moment the
\* records made from stdout are at the caller's stream_level, there is one
\* per received text, in the order of arrival (the captured lines are those
\* texts split one by one), and together they are everything the child wrote
\* to stdout but for what is still in the pipe: nothing received is waiting
\* to be logged.  When the call has failed for a non-zero exit, everything
\* the child wrote to stdout has been logged.
C14_StdoutForwarded ==
  (pc \in (TaskPcs \cup UtilPcs) \ {"start", "u_start"}) =>
    /\ \A k \in 1..Len(StdoutRecords) :
         /\ StdoutRecords[k].level = stream_level
         /\ StdoutRecords[k].msg # <<>>
    /\ Messages(StdoutRecords) \o stdout_pipe = out_written
    /\ lines = LinesOf(StdoutRecords)
    /\ (pc \in {"done", "u_done"} /\ result.error.type = "RuntimeError")
         => Messages(StdoutRecords) = out_written

\* utils.shell_run_command at WARNING has failed after two texts of stdout.
C14_Witness ==
  /\ pc = "u_done"
  /\ stream_level = WARNING
  /\ result.kind = "raise"
  /\ result.error.type = "RuntimeError"
  /\ Len(logged) = 3
  /\ logged[1] = [level |-> WARNING, msg |-> <<"a">>]
  /\ logged[2] = [level |-> WARNING, msg |-> <<nl>>]
  /\ logged[3].level = ERROR

\* C15: utils.shell_run_command with return_all=False returns the empty
\* string when the child exits with code 0 and has written nothing.
C15_UtilEmptyOutputReturnsEmptyString ==
  (/\ pc = "u_done"
   /\ ~return_all
   /\ returncode = <<0>>
   /\ out_written = <<>>)
    => (result.kind = "str" /\ result.str = <<>>)

\* C16: the child of utils.shell_run_command called with a non-empty env has
\* every inherited variable that env does not name, with its inherited
\* value, and every variable of env.
C16_UtilChildKeepsInherited ==
  (/\ pc \in UtilPcs
   /\ child # "none"
   /\ ~env.isNone
   /\ env.map # EmptyEnv)
    => /\ \A k \in DOMAIN env.map :
            k \in DOMAIN child_env /\ child_env[k] = env.map[k]
       /\ \A k \in DOMAIN os_environ \ DOMAIN env.map :
            k \in DOMAIN child_env /\ child_env[k] = os_environ[k]

RECURSIVE Keep(_, _)
\* The characters of the text that are in S, in order.
Keep(text, S) ==
  IF text = <<>> THEN <<>>
  ELSE (IF text[1] \in S THEN <<text[1]>> ELSE <<>>) \o Keep(Tail(text), S)

\* What the readers have taken from a stream of process i so far.
Consumed(i, src) ==
  SubSeq(procs[i].written[src], 1,
         Len(procs[i].written[src]) - Len(procs[i].pipe[src]))

\* C17: ShellOperation.run on a block with stream_output=False ends (unless
\* it is cancelled) by returning a list, and the list has what the process
\* wrote to stdout and stderr, as it has with stream_output=True.
C17_CaptureIndependentOfStreaming ==
  (/\ op_pc = "idle"
   /\ op_result.call = "run"
   /\ ~stream_output
   /\ op_result.error # "CancelledError")
    => /\ op_result.kind = "list"
       /\ Keep(Concat(op_result.list), {"a"})
            = Keep(procs[cur].written["stdout"], {"a"})
       /\ Keep(Concat(op_result.list), {"e"})
            = Keep(procs[cur].written["stderr"], {"e"})

\* The script file given to process i.
ScriptOf(i) == files[procs[i].argv[2]]

\* C18: for every process spawned by ShellOperation.trigger, everything
\* written to its script file (the joined commands, and the trailer when
\* the shell is PowerShell) was flushed before the spawn.
C18_ScriptFlushedBeforeSpawn ==
  \A i \in 1..Len(procs) : ScriptOf(i).flushed = ScriptOf(i).content

\* C19: for every process spawned by ShellOperation.trigger, the interpreter
\* is PowerShell if and only if the script file's extension is .ps1, and if
\* and only if the trailer was written to the script.
C19_ShellExtensionTrailerConsistent ==
  \A i \in 1..Len(procs) :
    LET powershell == procs[i].argv[1] = "powershell"
        ps1        == ScriptOf(i).suffix = ".ps1"
        trailer    == \E k \in 1..Len(ScriptOf(i).content) :
                        ScriptOf(i).content[k] = Trailer
    IN (powershell <=> ps1) /\ (ps1 <=> trailer)

\* C20: in the buffer that fetch_result returns, what came from stdout is in
\* the order the process wrote it and so is what came from stderr, whatever
\* the order in which the two readers ran; nothing a reader took from its
\* stream is missing from the buffer or there twice.  This is about
\* processes opened with pipes; the characters of the two streams are
\* distinct, so the buffer shows where each came from.
C20_PerStreamOrderKept ==
  /\ \A i \in {j \in 1..Len(procs) : procs[j].piped} :
       /\ Keep(Concat(procs[i].output), StdoutChars)
            = Keep(Consumed(i, "stdout"), StdoutChars)
       /\ Keep(Concat(procs[i].output), StderrChars)
            = Keep(Consumed(i, "stderr"), StderrChars)
       /\ \A k \in 1..Len(procs[i].output) :
            \A j \in 1..Len(procs[i].output[k]) :
              procs[i].output[k][j] # nl
  /\ (op_pc = "idle" /\ op_result.call \in {"run", "fetch_result"}
        /\ op_result.kind = "list")
       => \E i \in 1..Len(procs) : op_result.list = procs[i].output

\* fetch_result after the readers took a text of stderr, one of stdout and
\* again one of stderr.
C20_Witness ==
  /\ op_pc = "idle"
  /\ op_result.call = "fetch_result"
  /\ procs[1].waited
  /\ op_result.list = <<<<"e">>, <<"a">>, <<"f">>>>

\* C21: a process that is still running has no return code; and when
\* wait_for_completion (alone or inside run) has returned normally, both
\* readers have reached the end of their stream, nothing is left in either
\* pipe, the process has exited and its return code is set to the code it
\* exited with.
C21_ReturnsAfterBothEndsAndExit ==
  /\ \A i \in 1..Len(procs) :
       procs[i].state = "running" => procs[i].returncode = <<>>
  /\ (/\ op_pc = "idle"
      /\ op_result.call \in {"wait_for_completion", "run"}
      /\ op_result.kind \in {"ok", "list"})
       => /\ readers["stdout"] = "done"
          /\ readers["stderr"] = "done"
          /\ procs[cur].pipe = NoPipes
          /\ procs[cur].state = "exited"
          /\ procs[cur].returncode = <<procs[cur].exit_code>>

C21_Witness ==
  /\ op_pc = "idle"
  /\ op_result.call = "wait_for_completion"
  /\ op_result.kind = "ok"
  /\ procs[cur].written["stdout"] # <<>>
  /\ procs[cur].written["stderr"] # <<>>
  /\ procs[cur].returncode = <<2>>
  /\ readers["stderr"] = "done"

\* s is the beginning of t.
IsPrefix(s, t) == Len(s) <= Len(t) /\ SubSeq(t, 1, Len(s)) = s

\* No step takes anything out of the buffer of a process or reorders it.
BufferOnlyGrows ==
  \A i \in 1..Len(procs) : IsPrefix(procs[i].output, procs'[i].output)

\* C22: the buffer of a process only ever grows at its end (so an
\* interrupted wait_for_completion leaves what was captured, in order), and
\* fetch_result returns the buffer as it is.
C22_PartialOutputKept ==
  /\ [][BufferOnlyGrows]_vars
  /\ []((op_pc = "idle" /\ op_result.call = "fetch_result")
          => \E i \in 1..Len(procs) : op_result.list = procs[i].output)

\* fetch_result after a wait that was cancelled while the child was still
\* running and something had been captured.
C22_Witness ==
  /\ op_pc = "idle"
  /\ op_result.call = "fetch_result"
  /\ procs[1].waited
  /\ procs[1].state = "running"
  /\ procs[1].output # <<>>
  /\ op_result.list = procs[1].output

\* C23: for a block whose commands list is empty, no script file is created
\* and no process is spawned, and trigger and run end with an error.
C23_EmptyBatchRejected ==
  (op_pc # "unused" /\ commands = <<>>)
    => /\ files = <<>>
       /\ procs = <<>>
       /\ op_result.call \in {"trigger", "run"} => op_result.kind = "raise"

\* Every resource a trigger has registered.
Registered ==
  {<<"file", i>> : i \in 1..Len(files)}
    \cup {<<"process", i>> : i \in 1..Len(procs)}

\* C24: when close has ended, by returning or by raising because a release
\* failed, the release of every registered resource was attempted: each is
\* in the log of releases, nothing is left registered, every process is
\* closed and no script file is left.
C24_CloseAttemptsEveryRelease ==
  (op_pc = "idle" /\ op_result.call = "close") =>
    /\ exit_stack = <<>>
    /\ \A r \in Registered :
         \E k \in 1..Len(release_log) : release_log[k] = r
    /\ AllReleased

\* close has raised after a release failed, and all four resources of two
\* triggers were released.
C24_Witness ==
  /\ op_pc = "idle"
  /\ op_result.call = "close"
  /\ op_result.kind = "raise"
  /\ release_log = << <<"process", 2>>, <<"file", 2>>,
                      <<"process", 1>>, <<"file", 1>> >>
  /\ AllReleased

\* C25: when shell_run_command (commands.py) has raised the command failure
\* for a non-zero exit, the error that leaves the call is that RuntimeError
\* with the exit code, also when the removal of the script fails afterwards.
C25_CommandFailureNotMasked ==
  (/\ pc = "done"
   /\ result.kind = "raise"
   /\ \/ result.error.type = "RuntimeError"
      \/ result.error.context = "RuntimeError")
    => /\ result.error.type = "RuntimeError"
       /\ result.error.code = exit_code

\* C26: a script file that another actor has removed is no error for the
\* cleanup: shell_run_command does not end with FileNotFoundError, and
\* neither does ShellOperation.close.
C26_RemovedScriptIsNoError ==
  /\ pc = "done" => result.error.type # "FileNotFoundError"
  /\ (op_pc = "idle" /\ op_result.call = "close")
       => op_result.error # "FileNotFoundError"

====
